---- MODULE Spec2Model ----
(***************************************************************************)
(* Model of the regime scorer of src/src/metrics_calculator.py            *)
(* (MetricsCalculator.calculate_regime_score) and of the records it reads. *)
(*                                                                         *)
(* Number encoding.  The code works on Python floats; the model keeps      *)
(* every quantity as an integer count of a fixed unit:                     *)
(*   momentum     unit 0.005   (0.02 = 4, -0.025 = -5, -0.01 = -2)          *)
(*   tonnes       unit 50 t    (250 t = 5, 100 t = 2, 300 t = 6)           *)
(*   z-score      unit 0.5     (1.5 = 3, 1.0 = 2, -1.0 = -2)               *)
(*   score/weight unit 0.001   (2 = 2000, 1.5 = 1500, 0.75 = 750)          *)
(* A dict value is a tagged record: a number, Python None, float NaN, or   *)
(* Absent when the dict has no such key.                                   *)
(***************************************************************************)
EXTENDS Integers, Sequences, FiniteSets, TLC

VARIABLES
    \* calculate_regime_score: its two arguments and what the call left
    metrics, cb_data, result,
    \* calculate_zscore / calculate_momentum: the series, the lookback
    \* argument and what each call left
    series, days, zscores, momentum,
    \* calculate_all_metrics: the fresh frame, the historical frame, the
    \* merged frame and the series derived from it
    df, history_df, full_df, real_gold, gold_sp,
    \* fetch_fred_data: the observations FRED returns and the frame built
    fred_data, fred_df,
    \* calculate_all_metrics: the dict it returns
    snapshot,
    \* fetch_yahoo_data: what each Yahoo source answers and the dict returned
    yahoo_provider, yahoo_data,
    \* get_latest_data: the curated CSV, the day of the call, the record
    cb_file, today, cb_record,
    \* check_for_new_report: the state file, the state the monitor holds,
    \* the links of the page, the notifications sent, the value returned
    state_file, state, page, notified, new_report,
    \* run_monthly_report: the history CSV, the step reached, whether the
    \* report file was written, the value returned
    history_file, step, report_saved, run_result

scorerVars == <<metrics, cb_data, result>>
seriesVars == <<series, days, zscores, momentum>>
frameVars == <<df, history_df, full_df, real_gold, gold_sp>>
fetchVars == <<fred_data, fred_df>>

metricsVars == <<snapshot>>
yahooVars == <<yahoo_provider, yahoo_data>>
cbVars == <<cb_file, today, cb_record>>
monitorVars == <<state_file, state, page, notified, new_report>>
runVars == <<history_file, step, report_saved, run_result>>
pipelineVars == <<metricsVars, yahooVars, cbVars, monitorVars, runVars>>

vars == <<metrics, cb_data, result, series, days, zscores, momentum,
          df, history_df, full_df, real_gold, gold_sp, fred_data, fred_df,
          snapshot, yahoo_provider, yahoo_data, cb_file, today, cb_record,
          state_file, state, page, notified, new_report,
          history_file, step, report_saved, run_result>>

\* ---------------------------------------------------------------- bounds
MaxMomentum == 5
MaxTonnes == 6
MaxZ == 4

\* ------------------------------------------------------- dict values
Num(n) == [tag |-> "num", val |-> n]
None == [tag |-> "none", val |-> 0]
NaN == [tag |-> "nan", val |-> 0]
Absent == [tag |-> "absent", val |-> 0]

IsNum(x) == x.tag = "num"

\* dict.get(key, default): the default only when the key is absent.
Get(d, key, default) == IF d[key].tag = "absent" THEN default ELSE d[key]

\* Python's x < y and x > y on a float/int/NaN left operand and a number:
\* every comparison with NaN is False.
Lt(x, n) == x.tag = "num" /\ x.val < n
Gt(x, n) == x.tag = "num" /\ x.val > n

\* pd.isna(x) for a scalar.
IsNa(x) == x.tag \in {"none", "nan"}

\* ------------------------------------------------------- input domains
\* Values a snapshot can hold under a momentum key: calculate_all_metrics
\* stores a number or leaves the key out; a caller may store None.
MomentumValues == {Num(n) : n \in -MaxMomentum..MaxMomentum} \cup {None, Absent}

\* Values under real_gold_zscore: a number, None (insufficient history),
\* NaN, or no key (no real gold price at all).
ZscoreValues == {Num(n) : n \in -MaxZ..MaxZ} \cup {None, NaN, Absent}

\* Values under cb_net_tonnes: float(...) of the CSV cell (NaN for an empty
\* cell), None or no key in a hand-built record.
TonnesValues == {Num(n) : n \in -1..MaxTonnes} \cup {None, NaN, Absent}

\* status of a quarterly-signal record ("absent": the record has no status
\* key, and cb_data.get('status') is None).
StatusValues == {"current", "stale", "missing", "empty", "error", "absent"}

\* is_stale: True, False, or no key.
StaleValues == {"True", "False", "absent"}

\* days_old: an integer number of days, or no key.
DaysOldValues == {Num(120), Absent}

Snapshots ==
    [real_yield_momentum_30d : MomentumValues,
     dxy_momentum_30d : MomentumValues,
     real_gold_zscore : ZscoreValues]

QuarterlySignals ==
    [status : StatusValues,
     is_stale : StaleValues,
     days_old : DaysOldValues,
     cb_net_tonnes : TonnesValues]

\* --------------------------------------------------- thresholds, weights
\* 0.02 in momentum units (lines 274, 280, 292, 298).
SharpMomentum == 4
\* 250 t and 100 t in tonnes units (lines 313, 316).
StrongTonnes == 5
ModerateTonnes == 2
\* 1.5 and 1.0 in z-score units (lines 330, 333, 335).
OvervaluedZ == 3
ElevatedZ == 2
\* 3 and 1 in score units (lines 339, 343, 347, 351).
BullishScore == 3000
MildScore == 1000

\* ------------------------------------------------- calculate_regime_score
\* One entry of the components list: the (label, weight, marker) tuple.
Component(label, weight, marker) ==
    [label |-> label, weight |-> weight, marker |-> marker]

\* `score += delta` followed by `components.append(entry)`.
Add(acc, delta, entry) ==
    [raised |-> acc.raised,
     score |-> acc.score + delta,
     components |-> Append(acc.components, entry)]

\* Leaving the function by an exception: nothing is returned.
Raise(acc, kind) ==
    [raised |-> kind, score |-> acc.score, components |-> acc.components]

\* score = 0; components = []
EmptyAcc == [raised |-> "none", score |-> 0, components |-> <<>>]

\* Variant of RealYields: the sharp bands take their boundary values
\* (<= -0.02, >= 0.02).
RealYieldsInclusive(m, acc) ==
    LET ry_momentum == Get(m, "real_yield_momentum_30d", Num(0)) IN
    IF ry_momentum.tag = "none" THEN acc
    ELSE IF Lt(ry_momentum, -SharpMomentum + 1)
        THEN Add(acc, 2000, Component("Real yields falling sharply", 2000, "check"))
    ELSE IF Lt(ry_momentum, 0)
        THEN Add(acc, 1000, Component("Real yields falling", 1000, "check"))
    ELSE IF Gt(ry_momentum, SharpMomentum - 1)
        THEN Add(acc, -2000, Component("Real yields rising sharply", -2000, "cross"))
    ELSE IF Gt(ry_momentum, 0)
        THEN Add(acc, -1000, Component("Real yields rising", -1000, "cross"))
    ELSE Add(acc, 0, Component("Real yields stable", 0, "dash"))

\* ===== Real Yields (Weight: 2x) =====
RealYields(m, acc) ==
    LET ry_momentum == Get(m, "real_yield_momentum_30d", Num(0)) IN
    IF ry_momentum.tag = "none" THEN acc
    ELSE IF Lt(ry_momentum, -SharpMomentum)
        THEN Add(acc, 2000, Component("Real yields falling sharply", 2000, "check"))
    ELSE IF Lt(ry_momentum, 0)
        THEN Add(acc, 1000, Component("Real yields falling", 1000, "check"))
    ELSE IF Gt(ry_momentum, SharpMomentum)
        THEN Add(acc, -2000, Component("Real yields rising sharply", -2000, "cross"))
    ELSE IF Gt(ry_momentum, 0)
        THEN Add(acc, -1000, Component("Real yields rising", -1000, "cross"))
    ELSE Add(acc, 0, Component("Real yields stable", 0, "dash"))

\* Variant of UsdStrength: the mild weakening branch adds 1.5 to the score
\* while its entry records 0.75.
UsdStrengthMismatch(m, acc) ==
    LET dxy_momentum == Get(m, "dxy_momentum_30d", Num(0)) IN
    IF dxy_momentum.tag = "none" THEN acc
    ELSE IF Lt(dxy_momentum, -SharpMomentum)
        THEN Add(acc, 1500, Component("USD weakening sharply", 1500, "check"))
    ELSE IF Lt(dxy_momentum, 0)
        THEN Add(acc, 1500, Component("USD weakening", 750, "check"))
    ELSE IF Gt(dxy_momentum, SharpMomentum)
        THEN Add(acc, -1500, Component("USD strengthening sharply", -1500, "cross"))
    ELSE IF Gt(dxy_momentum, 0)
        THEN Add(acc, -750, Component("USD strengthening", -750, "cross"))
    ELSE Add(acc, 0, Component("USD stable", 0, "dash"))

\* ===== USD Strength (Weight: 1.5x) =====
UsdStrength(m, acc) ==
    LET dxy_momentum == Get(m, "dxy_momentum_30d", Num(0)) IN
    IF dxy_momentum.tag = "none" THEN acc
    ELSE IF Lt(dxy_momentum, -SharpMomentum)
        THEN Add(acc, 1500, Component("USD weakening sharply", 1500, "check"))
    ELSE IF Lt(dxy_momentum, 0)
        THEN Add(acc, 750, Component("USD weakening", 750, "check"))
    ELSE IF Gt(dxy_momentum, SharpMomentum)
        THEN Add(acc, -1500, Component("USD strengthening sharply", -1500, "cross"))
    ELSE IF Gt(dxy_momentum, 0)
        THEN Add(acc, -750, Component("USD strengthening", -750, "cross"))
    ELSE Add(acc, 0, Component("USD stable", 0, "dash"))

\* The f-string of line 312: cb_data["days_old"] formatted into the label.
StaleLabel(days_old) ==
    IF days_old.tag = "num"
    THEN "CB data stale (" \o ToString(days_old.val) \o " days)"
    ELSE "CB data stale (" \o days_old.tag \o " days)"

\* Variant of CentralBank: the buying bands take their boundary values
\* (>= 250, >= 100).
CentralBankInclusive(cb, acc) ==
    IF cb.status \in {"current", "stale"}
    THEN LET cb_tonnes == Get(cb, "cb_net_tonnes", Num(0)) IN
         IF cb.is_stale = "True"
         THEN IF cb.days_old.tag = "absent"
              THEN Raise(acc, "KeyError")
              ELSE Add(acc, 0, Component(StaleLabel(cb.days_old), 0, "warn"))
         ELSE IF cb_tonnes.tag = "none" THEN Raise(acc, "TypeError")
         ELSE IF Gt(cb_tonnes, StrongTonnes - 1)
             THEN Add(acc, 2000, Component("Strong CB buying >250t", 2000, "check"))
         ELSE IF Gt(cb_tonnes, ModerateTonnes - 1)
             THEN Add(acc, 1000, Component("Moderate CB buying", 1000, "check"))
         ELSE IF Lt(cb_tonnes, 0)
             THEN Add(acc, -1000, Component("CB selling", -1000, "cross"))
         ELSE Add(acc, 0, Component("Weak CB buying", 0, "dash"))
    ELSE Add(acc, 0, Component("CB data missing", 0, "warn"))

\* Variant of CentralBank: strong buying weighs 2.5.
CentralBankHeavier(cb, acc) ==
    IF cb.status \in {"current", "stale"}
    THEN LET cb_tonnes == Get(cb, "cb_net_tonnes", Num(0)) IN
         IF cb.is_stale = "True"
         THEN IF cb.days_old.tag = "absent"
              THEN Raise(acc, "KeyError")
              ELSE Add(acc, 0, Component(StaleLabel(cb.days_old), 0, "warn"))
         ELSE IF cb_tonnes.tag = "none" THEN Raise(acc, "TypeError")
         ELSE IF Gt(cb_tonnes, StrongTonnes)
             THEN Add(acc, 2500, Component("Strong CB buying >250t", 2500, "check"))
         ELSE IF Gt(cb_tonnes, ModerateTonnes)
             THEN Add(acc, 1000, Component("Moderate CB buying", 1000, "check"))
         ELSE IF Lt(cb_tonnes, 0)
             THEN Add(acc, -1000, Component("CB selling", -1000, "cross"))
         ELSE Add(acc, 0, Component("Weak CB buying", 0, "dash"))
    ELSE Add(acc, 0, Component("CB data missing", 0, "warn"))

\* ===== Central Bank Buying (Weight: 2x) =====
\* cb_data["days_old"] raises KeyError when the key is absent; comparing
\* None with a number raises TypeError.
CentralBank(cb, acc) ==
    IF cb.status \in {"current", "stale"}
    THEN LET cb_tonnes == Get(cb, "cb_net_tonnes", Num(0)) IN
         IF cb.is_stale = "True"
         THEN IF cb.days_old.tag = "absent"
              THEN Raise(acc, "KeyError")
              ELSE Add(acc, 0, Component(StaleLabel(cb.days_old), 0, "warn"))
         ELSE IF cb_tonnes.tag = "none" THEN Raise(acc, "TypeError")
         ELSE IF Gt(cb_tonnes, StrongTonnes)
             THEN Add(acc, 2000, Component("Strong CB buying >250t", 2000, "check"))
         ELSE IF Gt(cb_tonnes, ModerateTonnes)
             THEN Add(acc, 1000, Component("Moderate CB buying", 1000, "check"))
         ELSE IF Lt(cb_tonnes, 0)
             THEN Add(acc, -1000, Component("CB selling", -1000, "cross"))
         ELSE Add(acc, 0, Component("Weak CB buying", 0, "dash"))
    ELSE Add(acc, 0, Component("CB data missing", 0, "warn"))

\* Variant of Valuation, as the docstring words it: -1 once the z-score
\* exceeds 1.0.
ValuationPerDocstring(m, acc) ==
    LET zscore == Get(m, "real_gold_zscore", None) IN
    IF zscore.tag # "none" /\ ~IsNa(zscore)
    THEN IF Gt(zscore, OvervaluedZ)
             THEN Add(acc, -1000, Component("Overvalued (z-score >1.5)", -1000, "warn"))
         ELSE IF Gt(zscore, ElevatedZ)
             THEN Add(acc, -1000, Component("Elevated valuation (z-score >1.0)", -1000, "warn"))
         ELSE IF Lt(zscore, -ElevatedZ)
             THEN Add(acc, 0, Component("Undervalued (z-score <-1.0)", 0, "bulb"))
         ELSE acc
    ELSE acc

\* ===== Valuation Risk =====
Valuation(m, acc) ==
    LET zscore == Get(m, "real_gold_zscore", None) IN
    IF zscore.tag # "none" /\ ~IsNa(zscore)
    THEN IF Gt(zscore, OvervaluedZ)
             THEN Add(acc, -1000, Component("Overvalued (z-score >1.5)", -1000, "warn"))
         ELSE IF Gt(zscore, ElevatedZ)
             THEN Add(acc, 0, Component("Elevated valuation (z-score >1.0)", 0, "warn"))
         ELSE IF Lt(zscore, -ElevatedZ)
             THEN Add(acc, 0, Component("Undervalued (z-score <-1.0)", 0, "bulb"))
         ELSE acc
    ELSE acc

\* round(score, 2): to the nearest 0.01, ties to the even hundredth.
Round2(s) ==
    LET q == s \div 10
        r == s % 10
    IN IF r < 5 THEN q * 10
       ELSE IF r > 5 THEN (q + 1) * 10
       ELSE IF q % 2 = 0 THEN q * 10 ELSE (q + 1) * 10

\* Variant of Interpret: the strong bands exclude their boundary scores
\* (> 3, < -3).
InterpretStrict(score) ==
    IF score > BullishScore
        THEN [assessment |-> "BULLISH",
              conviction |-> "High conviction for long position",
              action |-> "Consider increasing allocation"]
    ELSE IF score >= MildScore
        THEN [assessment |-> "MILDLY BULLISH",
              conviction |-> "Moderate conviction",
              action |-> "Maintain or slightly increase position"]
    ELSE IF score < -BullishScore
        THEN [assessment |-> "BEARISH",
              conviction |-> "High conviction bearish",
              action |-> "Consider reducing position"]
    ELSE IF score <= -MildScore
        THEN [assessment |-> "MILDLY BEARISH",
              conviction |-> "Caution warranted",
              action |-> "Maintain or reduce exposure"]
    ELSE [assessment |-> "NEUTRAL",
          conviction |-> "Mixed signals",
          action |-> "Hold current position"]

\* ===== Interpret Score =====
Interpret(score) ==
    IF score >= BullishScore
        THEN [assessment |-> "BULLISH",
              conviction |-> "High conviction for long position",
              action |-> "Consider increasing allocation"]
    ELSE IF score >= MildScore
        THEN [assessment |-> "MILDLY BULLISH",
              conviction |-> "Moderate conviction",
              action |-> "Maintain or slightly increase position"]
    ELSE IF score <= -BullishScore
        THEN [assessment |-> "BEARISH",
              conviction |-> "High conviction bearish",
              action |-> "Consider reducing position"]
    ELSE IF score <= -MildScore
        THEN [assessment |-> "MILDLY BEARISH",
              conviction |-> "Caution warranted",
              action |-> "Maintain or reduce exposure"]
    ELSE [assessment |-> "NEUTRAL",
          conviction |-> "Mixed signals",
          action |-> "Hold current position"]

\* What a call leaves in `result`: the returned dict, or the exception.
Returned(acc) ==
    LET band == Interpret(acc.score) IN
    [raised |-> "none",
     score |-> Round2(acc.score),
     assessment |-> band.assessment,
     conviction |-> band.conviction,
     action |-> band.action,
     components |-> acc.components]

Raised(kind) ==
    [raised |-> kind, score |-> 0, assessment |-> "", conviction |-> "",
     action |-> "", components |-> <<>>]

\* Variant of calculate_regime_score: the central-bank category is
\* evaluated before the dollar category.
calculate_regime_score_reordered(m, cb) ==
    LET a1 == RealYields(m, EmptyAcc)
        a2 == CentralBank(cb, a1)
        a3 == IF a2.raised # "none" THEN a2 ELSE UsdStrength(m, a2)
    IN IF a3.raised # "none" THEN Raised(a3.raised)
       ELSE Returned(Valuation(m, a3))

\* The function body, lines 268-366.
calculate_regime_score(m, cb) ==
    LET a1 == RealYields(m, EmptyAcc)
        a2 == UsdStrength(m, a1)
        a3 == CentralBank(cb, a2)
    IN IF a3.raised # "none" THEN Raised(a3.raised)
       ELSE Returned(Valuation(m, a3))

\* ------------------------------------------------------------ the machine
\* No call made yet on the current pair of inputs.
NotCalled == Raised("not_called")

\* A call not made yet: what an output variable holds before its function
\* is applied.
NotComputed == [state |-> "not_computed", values |-> <<>>]

\* calculate_momentum not called yet.
MomentumNotComputed ==
    [state |-> "not_computed", value |-> [tag |-> "none", num |-> 0, den |-> 1],
     past |-> "none"]

\* No frame at all (history_df is None).
NoFrame == [columns |-> {}, rows |-> <<>>, present |-> FALSE]

\* The parts of the program a specification leaves alone.
SeriesIdle ==
    /\ series = <<>>
    /\ days = 0
    /\ zscores = NotComputed
    /\ momentum = MomentumNotComputed
FrameIdle ==
    /\ df = NoFrame
    /\ history_df = NoFrame
    /\ full_df = NoFrame
    /\ real_gold = NotComputed
    /\ gold_sp = NotComputed
FetchIdle ==
    /\ fred_data = <<>>
    /\ fred_df = NotComputed

\* The dict of calculate_all_metrics before a call.
SnapshotIdle == snapshot = NotComputed

\* No Yahoo source asked, no dict returned.
NoProvider ==
    [xauusd |-> "unasked", gc |-> "unasked", gld_proxy |-> "unasked",
     vix |-> "unasked", gld |-> "unasked", gld_info |-> "unasked"]
YahooNotFetched ==
    [state |-> "not_fetched", gold_history |-> "empty",
     vix_history |-> "empty", vix_current |-> "none",
     gld_price_history |-> "empty", gld_shares |-> "none",
     asked |-> {}]
YahooIdle == yahoo_provider = NoProvider /\ yahoo_data = YahooNotFetched

\* No curated CSV, no record read.
NoCsv == [exists |-> FALSE, readable |-> FALSE, rows |-> <<>>]
NoRecord == [status |-> "not_called"]
CbIdle == cb_file = NoCsv /\ today = 0 /\ cb_record = NoRecord

\* No state file, no monitor constructed, nothing notified.
NoStateFile == [exists |-> FALSE, checked_quarters |-> <<>>]
NoMonitor == [loaded |-> FALSE, checked_quarters |-> <<>>]
NoReport == [returned |-> "not_called"]
MonitorIdle ==
    /\ state_file = NoStateFile
    /\ state = NoMonitor
    /\ page = <<>>
    /\ notified = <<>>
    /\ new_report = NoReport

\* No history CSV, no run started.
NoHistoryFile == [exists |-> FALSE, columns |-> {}, rows |-> <<>>]
RunIdle ==
    /\ history_file = NoHistoryFile
    /\ step = "idle"
    /\ report_saved = FALSE
    /\ run_result = "none"

PipelineIdle == SnapshotIdle /\ YahooIdle /\ CbIdle /\ MonitorIdle /\ RunIdle

Init ==
    /\ metrics \in Snapshots
    /\ cb_data \in QuarterlySignals
    /\ result = NotCalled
    /\ SeriesIdle /\ FrameIdle /\ FetchIdle /\ PipelineIdle

\* Variant of Score: the components list outlives the call (kept on the
\* calculator instead of created per call), so a second call appends to the
\* entries of the first.
ScoreKeepingComponents ==
    /\ result' =
           LET r == calculate_regime_score(metrics, cb_data) IN
           IF result.raised = "none" /\ r.raised = "none"
           THEN [r EXCEPT !.components = result.components \o r.components]
           ELSE r
    /\ UNCHANGED <<metrics, cb_data, seriesVars, frameVars, fetchVars, pipelineVars>>

\* regime = calc.calculate_regime_score(metrics, cb_data)
Score ==
    /\ result' = calculate_regime_score(metrics, cb_data)
    /\ UNCHANGED <<metrics, cb_data, seriesVars, frameVars, fetchVars, pipelineVars>>

Next == Score

Spec == Init /\ [][Next]_vars

\* ----------------------------------------------------- reading a result
\* A call was made on the current inputs.
Called == result.raised # "not_called"
\* The call returned a dict (it did not raise).
HasReturned == result.raised = "none"

RealYieldLabels ==
    {"Real yields falling sharply", "Real yields falling",
     "Real yields rising sharply", "Real yields rising", "Real yields stable"}
UsdLabels ==
    {"USD weakening sharply", "USD weakening", "USD strengthening sharply",
     "USD strengthening", "USD stable"}
CbStaleLabels == {StaleLabel(d) : d \in DaysOldValues \ {Absent}}
CbLabels ==
    {"Strong CB buying >250t", "Moderate CB buying", "CB selling",
     "Weak CB buying", "CB data missing"} \cup CbStaleLabels
ValuationLabels ==
    {"Overvalued (z-score >1.5)", "Elevated valuation (z-score >1.0)",
     "Undervalued (z-score <-1.0)"}

\* The category an entry belongs to: 1 real yields, 2 dollar strength,
\* 3 central-bank activity, 4 valuation (0: none of them).
CategoryOf(c) ==
    IF c.label \in RealYieldLabels THEN 1
    ELSE IF c.label \in UsdLabels THEN 2
    ELSE IF c.label \in CbLabels THEN 3
    ELSE IF c.label \in ValuationLabels THEN 4
    ELSE 0

\* The entries of one category in the returned list, in list order.
EntriesOf(cat) == SelectSeq(result.components, LAMBDA c : CategoryOf(c) = cat)

RECURSIVE SumWeights(_)
SumWeights(cs) == IF cs = <<>> THEN 0 ELSE Head(cs).weight + SumWeights(Tail(cs))

ScoreIsSumOfWeights ==
    HasReturned => result.score = Round2(SumWeights(result.components))

\* A call returned four entries, three of them with non-zero weights.
ScoreIsSumOfWeightsWitness ==
    /\ HasReturned
    /\ Len(result.components) = 4
    /\ Cardinality({i \in 1..4 : result.components[i].weight # 0}) = 3
    /\ result.score = 1750

\* ------------------------------------------------------------------- C3
\* C3: the returned components hold at most one entry per category, in the
\* order real yields, dollar strength, central bank, valuation, whichever
\* categories are absent.
ComponentsInCategoryOrder ==
    HasReturned =>
        /\ \A i \in 1..Len(result.components) :
               CategoryOf(result.components[i]) \in 1..4
        /\ \A i, j \in 1..Len(result.components) :
               i < j => CategoryOf(result.components[i])
                            < CategoryOf(result.components[j])

\* A call returned a list without a real-yield entry: dollar, central
\* bank, valuation.
ComponentsInCategoryOrderWitness ==
    /\ HasReturned
    /\ Len(result.components) = 3
    /\ CategoryOf(result.components[1]) = 2
    /\ CategoryOf(result.components[2]) = 3
    /\ CategoryOf(result.components[3]) = 4

\* ------------------------------------------------------------------- C4
\* The weight the claim gives a momentum m (in units of 0.005, so 0.02 is
\* 4) for a category with the given sharp and mild weights.
MomentumWeight(m, sharp, mild) ==
    IF m < -4 THEN sharp
    ELSE IF m < 0 THEN mild
    ELSE IF m > 4 THEN -sharp
    ELSE IF m > 0 THEN -mild
    ELSE 0

\* C4: a present 30-day momentum m puts exactly one entry of its category
\* in the result, weighted +sharp for m < -0.02, +mild for -0.02 <= m < 0,
\* -sharp for m > 0.02, -mild for 0 < m <= 0.02 (sharp/mild = 2/1 for real
\* yields, 1.5/0.75 for the dollar), and a 0-weight 'stable' entry for
\* m = 0; -0.02 and 0.02 themselves are mild.
MomentumBands ==
    HasReturned =>
        /\ IsNum(metrics.real_yield_momentum_30d) =>
               /\ Len(EntriesOf(1)) = 1
               /\ EntriesOf(1)[1].weight =
                      MomentumWeight(metrics.real_yield_momentum_30d.val, 2000, 1000)
               /\ (EntriesOf(1)[1].label = "Real yields stable")
                      <=> (metrics.real_yield_momentum_30d.val = 0)
        /\ IsNum(metrics.dxy_momentum_30d) =>
               /\ Len(EntriesOf(2)) = 1
               /\ EntriesOf(2)[1].weight =
                      MomentumWeight(metrics.dxy_momentum_30d.val, 1500, 750)
               /\ (EntriesOf(2)[1].label = "USD stable")
                      <=> (metrics.dxy_momentum_30d.val = 0)

\* A call returned with real-yield momentum exactly -0.02 scored +1 and
\* dollar momentum exactly 0.02 scored -0.75.
MomentumBandsWitness ==
    /\ HasReturned
    /\ metrics.real_yield_momentum_30d = Num(-4)
    /\ metrics.dxy_momentum_30d = Num(4)
    /\ EntriesOf(1)[1].weight = 1000
    /\ EntriesOf(2)[1].weight = -750

\* ------------------------------------------------------------------- C5
\* C5: when a 30-day momentum key is absent from the snapshot, the result
\* holds no entry of that category (unlike a momentum of exactly 0, which
\* yields a 'stable' entry).
AbsentMomentumEmitsNoEntry ==
    HasReturned =>
        /\ metrics.real_yield_momentum_30d = Absent => EntriesOf(1) = <<>>
        /\ metrics.dxy_momentum_30d = Absent => EntriesOf(2) = <<>>

\* ------------------------------------------------------------------- C6
\* The weight the claim gives a tonnes value t (in units of 50 t, so 250 t
\* is 5 and 100 t is 2).
TonnesWeight(t) ==
    IF t > 5 THEN 2000
    ELSE IF t > 2 THEN 1000
    ELSE IF t < 0 THEN -1000
    ELSE 0

\* C6: with status current or stale and is_stale false, a call on a numeric
\* tonnes value returns exactly one central-bank entry: +2 for tonnes > 250,
\* +1 for 100 < tonnes <= 250, -1 for tonnes < 0, and the 0-weight 'Weak CB
\* buying' entry for 0 <= tonnes <= 100.
CentralBankBands ==
    (/\ Called
     /\ cb_data.status \in {"current", "stale"}
     /\ cb_data.is_stale = "False"
     /\ IsNum(cb_data.cb_net_tonnes)) =>
        /\ HasReturned
        /\ Len(EntriesOf(3)) = 1
        /\ EntriesOf(3)[1].weight = TonnesWeight(cb_data.cb_net_tonnes.val)
        /\ (EntriesOf(3)[1].label = "Weak CB buying")
               <=> (cb_data.cb_net_tonnes.val \in 0..2)

\* A call returned with exactly 250 t, not stale, scored +1.
CentralBankBandsWitness ==
    /\ HasReturned
    /\ cb_data.status = "current"
    /\ cb_data.is_stale = "False"
    /\ cb_data.cb_net_tonnes = Num(5)
    /\ EntriesOf(3)[1].weight = 1000

ScorerNeverRaises == result.raised \in {"not_called", "none"}

EndToEndExample ==
    (/\ Called
     /\ metrics.real_yield_momentum_30d = Num(-5)
     /\ metrics.dxy_momentum_30d = Num(-2)
     /\ metrics.real_gold_zscore = Num(1)
     /\ cb_data.status = "current"
     /\ cb_data.is_stale = "False"
     /\ cb_data.cb_net_tonnes = Num(6)) =>
        /\ HasReturned
        /\ result.score = 4750
        /\ result.assessment = "BULLISH"
        /\ result.conviction = "High conviction for long position"
        /\ Len(result.components) = 3
        /\ CategoryOf(result.components[1]) = 1
        /\ result.components[1].weight = 2000
        /\ CategoryOf(result.components[2]) = 2
        /\ result.components[2].weight = 750
        /\ CategoryOf(result.components[3]) = 3
        /\ result.components[3].weight = 2000

\* The call on the example inputs was made and returned.
EndToEndExampleWitness ==
    /\ HasReturned
    /\ metrics.real_yield_momentum_30d = Num(-5)
    /\ metrics.dxy_momentum_30d = Num(-2)
    /\ metrics.real_gold_zscore = Num(1)
    /\ cb_data.status = "current"
    /\ cb_data.is_stale = "False"
    /\ cb_data.cb_net_tonnes = Num(6)
    /\ result.score = 4750

\* ======================================================================
\* Series functions: calculate_zscore and calculate_momentum
\* ======================================================================
\* ---------------------------------------------------------------- bounds
\* Longest series, largest observation (observations are -1..MaxValue).
MaxLen == 5
MaxValue == 2
\* The rolling window and min_periods of the calls at lines 171 and 184
\* (1260 and 252 in the code), scaled down.
Window == 4
MinPeriods == 3
\* Largest lookback (30, 60, 90 in the code), scaled down.
MaxDays == 3

\* ------------------------------------------------ float results, exactly
\* A float result is kept exactly: NaN, an infinity (num is its sign), or
\* the fraction num/den in lowest terms with den > 0.
RECURSIVE GCD(_, _)
GCD(a, b) == IF b = 0 THEN a ELSE GCD(b, a % b)
Abs(n) == IF n < 0 THEN -n ELSE n
Sign(n) == IF n > 0 THEN 1 ELSE IF n < 0 THEN -1 ELSE 0

XNaN == [tag |-> "nan", num |-> 0, den |-> 1]
XInf(sign) == [tag |-> "inf", num |-> sign, den |-> 1]
Frac(n, d) ==
    LET g == GCD(Abs(n), Abs(d))
        k == IF d < 0 THEN -1 ELSE 1
    IN [tag |-> "num", num |-> (k * n) \div g, den |-> (k * d) \div g]

\* A cell of a float series as a float result.
FromCell(c) == IF c.tag = "num" THEN Frac(c.val, 1) ELSE XNaN

\* a - b on floats.
XSub(a, b) ==
    IF a.tag = "nan" \/ b.tag = "nan" THEN XNaN
    ELSE IF a.tag = "inf"
        THEN IF b.tag = "inf" /\ b.num = a.num THEN XNaN ELSE a
    ELSE IF b.tag = "inf" THEN XInf(-b.num)
    ELSE Frac(a.num * b.den - b.num * a.den, a.den * b.den)

\* a / b on numpy floats: x/0 is +-inf, 0/0 is NaN, nothing raises.
XDiv(a, b) ==
    IF a.tag = "nan" \/ b.tag = "nan" THEN XNaN
    ELSE IF b.tag = "inf"
        THEN IF a.tag = "inf" THEN XNaN ELSE Frac(0, 1)
    ELSE IF a.tag = "inf"
        THEN XInf(IF b.num < 0 THEN -a.num ELSE a.num)
    ELSE IF b.num = 0
        THEN IF a.num = 0 THEN XNaN ELSE XInf(Sign(a.num))
    ELSE Frac(a.num * b.den, a.den * b.num)

\* a * b on floats.
XMul(a, b) ==
    IF a.tag = "nan" \/ b.tag = "nan" THEN XNaN
    ELSE IF a.tag = "inf" \/ b.tag = "inf"
        THEN IF a.num = 0 \/ b.num = 0 THEN XNaN
             ELSE XInf(Sign(a.num) * Sign(b.num))
    ELSE Frac(a.num * b.num, a.den * b.den)

\* ------------------------------------------------------- calculate_zscore
\* The rows of the trailing window that ends at, and includes, row i.
WindowRows(i, window) == {j \in 1..i : j > i - window}

\* The non-missing observations of that window, as row numbers.
WindowObs(s, i, window) == {j \in WindowRows(i, window) : s[j].tag = "num"}

RECURSIVE SumOver(_, _, _)
\* Sum of f applied to the observations at the rows of set js.
SumOver(s, js, square) ==
    IF js = {} THEN 0
    ELSE LET j == CHOOSE x \in js : TRUE
             v == IF square THEN s[j].val * s[j].val ELSE s[j].val
         IN v + SumOver(s, js \ {j}, square)

\* Variant of EnoughObservations: one observation fewer is enough.
EnoughObservationsOffByOne(n, min_periods) == n >= min_periods - 1

\* rolling(..., min_periods): a window statistic is defined (not NaN) only
\* with at least min_periods non-missing observations in the window.
EnoughObservations(n, min_periods) == n >= min_periods

\* series.rolling(window, min_periods).mean() at row i.
RollingMean(s, i, window, min_periods) ==
    LET obs == WindowObs(s, i, window)
        n == Cardinality(obs)
    IN IF EnoughObservations(n, min_periods) /\ n > 0
       THEN Frac(SumOver(s, obs, FALSE), n)
       ELSE XNaN

\* series.rolling(window, min_periods).std() at row i (sample standard
\* deviation, ddof = 1), kept as its square, the variance
\* (n*Q - S^2) / (n*(n-1)): NaN with fewer than min_periods or fewer than
\* two observations.
RollingStd(s, i, window, min_periods) ==
    LET obs == WindowObs(s, i, window)
        n == Cardinality(obs)
        S == SumOver(s, obs, FALSE)
        Q == SumOver(s, obs, TRUE)
    IN IF EnoughObservations(n, min_periods) /\ n > 1
       THEN Frac(n * Q - S * S, n * (n - 1))
       ELSE XNaN

\* Variant of ReplaceZero: a zero deviation becomes 1 instead of NaN.
ReplaceZeroWithOne(std) ==
    IF std.tag = "num" /\ std.num = 0 THEN Frac(1, 1) ELSE std

\* rolling_std.replace(0, np.nan)
ReplaceZero(std) ==
    IF std.tag = "num" /\ std.num = 0 THEN XNaN ELSE std

\* (x - mean) / std, with std given by its square: the quotient is kept as
\* its sign and its square.
ZQuotient(diff, std) ==
    IF diff.tag = "nan" \/ std.tag = "nan"
        THEN [tag |-> "nan", sign |-> 0, sq |-> XNaN]
    ELSE IF std.num = 0
        THEN IF diff.num = 0
             THEN [tag |-> "nan", sign |-> 0, sq |-> XNaN]
             ELSE [tag |-> "inf", sign |-> Sign(diff.num), sq |-> XInf(1)]
    ELSE [tag |-> "num", sign |-> Sign(diff.num),
          sq |-> XDiv(XMul(diff, diff), std)]

\* Lines 65-73.
calculate_zscore(s, window, min_periods) ==
    [i \in 1..Len(s) |->
        LET rolling_mean == RollingMean(s, i, window, min_periods)
            rolling_std == ReplaceZero(RollingStd(s, i, window, min_periods))
        IN ZQuotient(XSub(FromCell(s[i]), rolling_mean), rolling_std)]

\* ----------------------------------------------------- calculate_momentum
MomentumNone(past) ==
    [state |-> "returned", value |-> [tag |-> "none", num |-> 0, den |-> 1],
     past |-> past]

\* Variant of calculate_momentum without the early return of lines 89-90.
calculate_momentum_unguarded(s, d) ==
    IF Len(s) = 0 THEN [MomentumNone("none") EXCEPT !.state = "IndexError"]
    ELSE
    LET current == s[Len(s)]
        fromLookback == Len(s) >= d
        past == IF fromLookback THEN s[Len(s) - d + 1] ELSE s[1]
        where == IF fromLookback THEN "lookback" ELSE "earliest"
    IN IF current.tag = "nan" \/ past.tag = "nan" \/ past.val = 0
       THEN MomentumNone(where)
       ELSE [state |-> "returned",
             value |-> XSub(XDiv(FromCell(current), FromCell(past)), Frac(1, 1)),
             past |-> where]

\* Lines 89-99.  series.iloc[-days] is row Len - days + 1; `past` records
\* which arm of the conditional of line 94 supplied the past value.
calculate_momentum(s, d) ==
    IF Len(s) < d THEN MomentumNone("none")
    ELSE
    LET current == s[Len(s)]
        fromLookback == Len(s) >= d
        past == IF fromLookback THEN s[Len(s) - d + 1] ELSE s[1]
        where == IF fromLookback THEN "lookback" ELSE "earliest"
    IN IF current.tag = "nan" \/ past.tag = "nan" \/ past.val = 0
       THEN MomentumNone(where)
       ELSE [state |-> "returned",
             value |-> XSub(XDiv(FromCell(current), FromCell(past)), Frac(1, 1)),
             past |-> where]

\* ------------------------------------------------------------ the machine
\* A float series: observations and NaN gaps.
SeriesValues == {Num(n) : n \in -1..MaxValue} \cup {NaN}
SeriesInputs == UNION {[1..n -> SeriesValues] : n \in 0..MaxLen}

\* What the scorer part holds while another part is exercised.
ScorerIdle ==
    /\ metrics = [real_yield_momentum_30d |-> Absent,
                  dxy_momentum_30d |-> Absent,
                  real_gold_zscore |-> Absent]
    /\ cb_data = [status |-> "absent", is_stale |-> "absent",
                  days_old |-> Absent, cb_net_tonnes |-> Absent]
    /\ result = NotCalled

InitSeries ==
    /\ series \in SeriesInputs
    /\ days = 0
    /\ zscores = NotComputed
    /\ momentum = MomentumNotComputed
    /\ ScorerIdle /\ FrameIdle /\ FetchIdle /\ PipelineIdle

\* self.calculate_zscore(series, window=1260, min_periods=252)
CalcZscore ==
    /\ zscores' = [state |-> "returned",
                   values |-> calculate_zscore(series, Window, MinPeriods)]
    /\ UNCHANGED <<series, days, momentum, scorerVars, frameVars, fetchVars, pipelineVars>>

\* self.calculate_momentum(series, days=days)
CalcMomentum ==
    \E d \in 1..MaxDays :
        /\ days' = d
        /\ momentum' = calculate_momentum(series, d)
        /\ UNCHANGED <<series, zscores, scorerVars, frameVars, fetchVars, pipelineVars>>

NextSeries == CalcZscore \/ CalcMomentum

SpecSeries == InitSeries /\ [][NextSeries]_vars

\* ----------------------------------------------------- reading the outputs
ZscoreComputed == zscores.state = "returned"
MomentumComputed == momentum.state # "not_computed"

\* Number of non-missing observations in the trailing window that ends at,
\* and includes, row i.
ObservationsInWindow(i) ==
    Cardinality({j \in 1..i : i - j < Window /\ series[j].tag = "num"})

\* The observations of that window are at least two, at least MinPeriods,
\* and all equal: their standard deviation is exactly zero.
WindowIsConstant(i) ==
    /\ ObservationsInWindow(i) >= MinPeriods
    /\ ObservationsInWindow(i) >= 2
    /\ \A j, k \in 1..i :
           (/\ i - j < Window /\ series[j].tag = "num"
            /\ i - k < Window /\ series[k].tag = "num") => series[j] = series[k]

\* ------------------------------------------------------------------ C12
\* C12: the z-score is undefined (NaN, no number) at every row whose
\* trailing window holds fewer than min_periods non-missing observations;
\* a row with a value has at least min_periods observations in its window.
ZscoreUndefinedBelowMinPeriods ==
    ZscoreComputed =>
        \A i \in 1..Len(series) :
            ObservationsInWindow(i) < MinPeriods => zscores.values[i].tag = "nan"

\* A series whose window reaches min_periods at some row: undefined at the
\* row before it (one observation short), a value at that row.
ZscoreUndefinedBelowMinPeriodsWitness ==
    /\ ZscoreComputed
    /\ \E i \in 1..(Len(series) - 1) :
           /\ series[i].tag = "num"
           /\ ObservationsInWindow(i) = MinPeriods - 1
           /\ zscores.values[i].tag = "nan"
           /\ ObservationsInWindow(i + 1) = MinPeriods
           /\ zscores.values[i + 1].tag = "num"

\* ------------------------------------------------------------------ C13
\* C13: the z-score is undefined (NaN), not infinite and not 0, at every
\* row where the rolling standard deviation of the window is exactly zero.
ZscoreUndefinedOnZeroStd ==
    ZscoreComputed =>
        \A i \in 1..Len(series) :
            WindowIsConstant(i) => zscores.values[i].tag = "nan"

\* A row with an observation whose full window holds identical values.
ZscoreUndefinedOnZeroStdWitness ==
    /\ ZscoreComputed
    /\ \E i \in 1..Len(series) :
           /\ series[i].tag = "num"
           /\ WindowIsConstant(i)
           /\ ObservationsInWindow(i) = Window
           /\ zscores.values[i].tag = "nan"

\* ------------------------------------------------------------------ C14
\* C14: calculate_momentum returns None for every series with fewer than
\* `days` observations, and no call takes its past value from the earliest
\* sample in place of the lookback observation.
MomentumUndefinedWhenShort ==
    MomentumComputed =>
        /\ momentum.state = "returned"
        /\ Len(series) < days => momentum.value.tag = "none"
        /\ momentum.past # "earliest"

\* A call on a series shorter than `days` whose first and last observations
\* would have given a value.
MomentumUndefinedWhenShortWitness ==
    /\ MomentumComputed
    /\ Len(series) >= 1
    /\ Len(series) < days
    /\ series[1].tag = "num" /\ series[1].val # 0
    /\ series[Len(series)].tag = "num"
    /\ momentum.value.tag = "none"

\* ------------------------------------------------------------------ C15
\* C15: a returned momentum equals (last / v) - 1, v being the observation
\* exactly `days` positions before the last one.
MomentumUsesObservationDaysBack ==
    (MomentumComputed /\ momentum.value.tag = "num") =>
        /\ Len(series) > days
        /\ series[Len(series) - days].tag = "num"
        /\ momentum.value =
               XSub(XDiv(FromCell(series[Len(series)]),
                         FromCell(series[Len(series) - days])),
                    Frac(1, 1))

\* ============================================================== frames
\* A DataFrame is its set of column names and its rows in index order; a
\* row is its date and one cell per column name (Absent: the frame has no
\* such column).  `present` is FALSE for Python None.
MaxRows == 2
MaxPrice == 2

ColumnNames == {"gold_spot", "cpi", "sp500"}

Row(d, g, c, s) == [date |-> d, gold_spot |-> g, cpi |-> c, sp500 |-> s]
Frame(cols, rows) == [columns |-> cols, rows |-> rows, present |-> TRUE]

\* df.empty: no rows or no columns.
IsEmpty(f) == f.rows = <<>> \/ f.columns = {}

\* An exact float result as a dict value would read it.
IsInf(x) == x.tag = "inf"
IsNaNResult(x) == x.tag = "nan"

\* ------------------------------------------- calculate_gold_sp_ratio
\* df['gold_spot'] / df['sp500']: an empty series when a column is
\* missing, else the element-wise float division (x/0 = inf, 0/0 = NaN).
calculate_gold_sp_ratio(f) ==
    IF "gold_spot" \notin f.columns \/ "sp500" \notin f.columns
    THEN [state |-> "returned", values |-> <<>>]
    ELSE [state |-> "returned",
          values |-> [i \in 1..Len(f.rows) |->
                         XDiv(FromCell(f.rows[i].gold_spot),
                              FromCell(f.rows[i].sp500))]]

\* metrics['gold_sp_ratio'] = gold_sp.iloc[-1], set only when the series
\* is not empty.
NoMetric == [tag |-> "absent", num |-> 0, den |-> 1]
gold_sp_ratio(gs) ==
    IF gs.values = <<>> THEN NoMetric ELSE gs.values[Len(gs.values)]

\* ----------------------------------------- calculate_real_gold_price
Hundred == 100

\* gold / (((cpi / base) * 100) / 100), row by row.
RealGoldRows(f, base) ==
    [i \in 1..Len(f.rows) |->
        XDiv(FromCell(f.rows[i].gold_spot),
             XDiv(XMul(XDiv(FromCell(f.rows[i].cpi), base), Frac(Hundred, 1)),
                  Frac(Hundred, 1)))]

\* An empty series when a column is missing; df['cpi'].iloc[0] raises
\* IndexError on a frame without rows; else the base is the cpi cell of
\* the first row, whatever it holds.
calculate_real_gold_price(f) ==
    IF "gold_spot" \notin f.columns \/ "cpi" \notin f.columns
    THEN [state |-> "returned", values |-> <<>>]
    ELSE IF f.rows = <<>>
    THEN [state |-> "IndexError", values |-> <<>>]
    ELSE [state |-> "returned",
          values |-> RealGoldRows(f, FromCell(f.rows[1].cpi))]

\* ------------------------------------------------------------ the machine
\* The cells a column can hold: the gold price is one positive level, the
\* index is any positive level, the equity level is zero or positive; any
\* cell may be missing.
CellDomain(col, cols) ==
    IF col \notin cols THEN {Absent}
    ELSE IF col = "sp500" THEN {NaN, Num(0), Num(MaxPrice)}
    ELSE IF col = "cpi" THEN {NaN} \cup {Num(v) : v \in 1..MaxPrice}
    ELSE {NaN, Num(MaxPrice)}

RowsOver(cols) ==
    {Row(0, g, c, s) : g \in CellDomain("gold_spot", cols),
                       c \in CellDomain("cpi", cols),
                       s \in CellDomain("sp500", cols)}

\* Frames of up to MaxRows rows dated 1, 2, ... in index order.
DerivedFrames ==
    UNION {UNION {{Frame(cols, [i \in 1..n |-> [r[i] EXCEPT !.date = i]]) :
                      r \in [1..n -> RowsOver(cols)]} :
                  n \in 0..MaxRows} :
           cols \in SUBSET ColumnNames}

InitDerived ==
    /\ full_df \in DerivedFrames
    /\ df = NoFrame
    /\ history_df = NoFrame
    /\ real_gold = NotComputed
    /\ gold_sp = NotComputed
    /\ ScorerIdle /\ SeriesIdle /\ FetchIdle /\ PipelineIdle

\* real_gold = self.calculate_real_gold_price(full_df)
CalcRealGold ==
    /\ real_gold' = calculate_real_gold_price(full_df)
    /\ UNCHANGED <<df, history_df, full_df, gold_sp,
                   scorerVars, seriesVars, fetchVars, pipelineVars>>

\* gold_sp = self.calculate_gold_sp_ratio(full_df)
CalcGoldSp ==
    /\ gold_sp' = calculate_gold_sp_ratio(full_df)
    /\ UNCHANGED <<df, history_df, full_df, real_gold,
                   scorerVars, seriesVars, fetchVars, pipelineVars>>

NextDerived == CalcRealGold \/ CalcGoldSp

SpecDerived == InitDerived /\ [][NextDerived]_vars

\* ----------------------------------------------------- reading the outputs
RealGoldComputed == real_gold.state # "not_computed"
GoldSpComputed == gold_sp.state # "not_computed"

\* The position of the first row that has a cpi value (0: none).
FirstValid(rows) ==
    IF \E i \in 1..Len(rows) : rows[i].cpi.tag = "num"
    THEN CHOOSE i \in 1..Len(rows) :
             /\ rows[i].cpi.tag = "num"
             /\ \A j \in 1..(i - 1) : rows[j].cpi.tag # "num"
    ELSE 0

\* ------------------------------------------------------------------ C16
\* C16: the gold/equity ratio is undefined (NaN) at every date where sp500
\* is zero or missing and holds infinity at no date; the same for the
\* latest value stored in the snapshot as gold_sp_ratio.
RatioNeverInfinite ==
    GoldSpComputed =>
        /\ \A i \in 1..Len(gold_sp.values) :
               /\ ~IsInf(gold_sp.values[i])
               /\ full_df.rows[i].sp500 \in {Num(0), NaN} =>
                      IsNaNResult(gold_sp.values[i])
        /\ ~IsInf(gold_sp_ratio(gold_sp))

\* ------------------------------------------------------------------ C17
\* C17: at every date where gold_spot and cpi are both present the real
\* gold price is defined and equals gold_spot * (first available cpi) /
\* cpi, also when the first row of the frame has no cpi value.
RealPriceNormalizedAtFirstAvailable ==
    (RealGoldComputed /\ {"gold_spot", "cpi"} \subseteq full_df.columns) =>
        \A i \in 1..Len(full_df.rows) :
            (full_df.rows[i].gold_spot.tag = "num"
             /\ full_df.rows[i].cpi.tag = "num") =>
                /\ real_gold.state = "returned"
                /\ real_gold.values[i].tag = "num"
                /\ real_gold.values[i] =
                       XDiv(XMul(FromCell(full_df.rows[i].gold_spot),
                                 FromCell(full_df.rows[FirstValid(full_df.rows)].cpi)),
                            FromCell(full_df.rows[i].cpi))

\* =============================================================== merge
\* full_df of calculate_all_metrics: the fresh frame, or the historical
\* frame and the fresh frame concatenated, de-duplicated and sorted.
MaxDate == 2
MaxHistory == 1

Range(s) == {s[i] : i \in 1..Len(s)}

\* pd.concat aligns the columns: a cell of a column the frame of the row
\* did not have is NaN.
Reindex(r, cols) ==
    [c \in DOMAIN r |->
        IF c = "date" THEN r.date
        ELSE IF c \in cols /\ r[c] = Absent THEN NaN ELSE r[c]]

concat(h, f) ==
    LET cols == h.columns \cup f.columns
    IN Frame(cols, [i \in 1..Len(h.rows) |-> Reindex(h.rows[i], cols)]
                   \o [i \in 1..Len(f.rows) |-> Reindex(f.rows[i], cols)])

\* The comparison drop_duplicates makes: the cells of every column (two
\* missing cells are equal); the index takes no part in it.
SameValues(r, q) == \A c \in DOMAIN r \ {"date"} : r[c] = q[c]

\* DataFrame.drop_duplicates(): keep='first', every later row whose cells
\* equal those of an earlier row is dropped.
drop_duplicates(rows) ==
    LET kept[i \in 0..Len(rows)] ==
            IF i = 0 THEN <<>>
            ELSE IF \E j \in 1..(i - 1) : SameValues(rows[j], rows[i])
                 THEN kept[i - 1]
                 ELSE Append(kept[i - 1], rows[i])
    IN kept[Len(rows)]

\* DataFrame.sort_index(): the rows in ascending date order.  The default
\* sort is not stable, so rows of one date come out in any order: the set
\* of arrangements of the positions S of `rows` the call can return.
RECURSIVE SortedOrders(_, _)
SortedOrders(rows, S) ==
    IF S = {} THEN {<<>>}
    ELSE LET first == {i \in S : \A j \in S : rows[i].date <= rows[j].date}
         IN UNION {{<<rows[i]>> \o t : t \in SortedOrders(rows, S \ {i})} :
                   i \in first}

sort_index(rows) == SortedOrders(rows, 1..Len(rows))

\* Lines 158-162: the frames full_df can be after them.
merge(h, f) ==
    IF h.present /\ ~IsEmpty(h)
    THEN {Frame(concat(h, f).columns, rows) :
              rows \in sort_index(drop_duplicates(concat(h, f).rows))}
    ELSE {f}

\* ------------------------------------------------------------ the machine
MergeRows ==
    {Row(d, g, Absent, Absent) :
         d \in 1..MaxDate, g \in {NaN} \cup {Num(v) : v \in 1..MaxPrice}}

IsSortedByDate(rows) ==
    \A i, j \in 1..Len(rows) : i < j => rows[i].date <= rows[j].date

\* The fresh frame: any rows in any order, or no rows at all.
FreshFrames ==
    {Frame({"gold_spot"}, rows) :
         rows \in UNION {[1..n -> MergeRows] : n \in 0..MaxRows}}

\* The historical frame: None, the empty frame load_historical_data
\* returns when there is no file, or the rows of a file, which
\* save_historical_data wrote in ascending date order.
HistoryFrames ==
    {NoFrame, Frame({}, <<>>)}
    \cup {Frame({"gold_spot"}, rows) :
              rows \in {r \in UNION {[1..n -> MergeRows] : n \in 0..MaxHistory} :
                            IsSortedByDate(r)}}

InitMerge ==
    /\ df \in FreshFrames
    /\ history_df \in HistoryFrames
    /\ full_df = NoFrame
    /\ real_gold = NotComputed
    /\ gold_sp = NotComputed
    /\ ScorerIdle /\ SeriesIdle /\ FetchIdle /\ PipelineIdle

\* calculate_all_metrics, lines 158-162
Merge ==
    /\ full_df' \in merge(history_df, df)
    /\ UNCHANGED <<df, history_df, real_gold, gold_sp,
                   scorerVars, seriesVars, fetchVars, pipelineVars>>

NextMerge == Merge

SpecMerge == InitMerge /\ [][NextMerge]_vars

\* ----------------------------------------------------- reading the outputs
Merged == full_df.present

\* The rows handed to the merge, historical and fresh.
InputRows ==
    (IF history_df.present THEN Range(history_df.rows) ELSE {})
    \cup Range(df.rows)

Occurrences(rows, r) == Cardinality({i \in 1..Len(rows) : rows[i] = r})

\* ------------------------------------------------------------------ C18
\* C18: the merged frame is sorted ascending by date for every pair of
\* inputs, also when the historical frame is absent or empty and the fresh
\* frame is not in ascending date order.
MergedSortedByDate == Merged => IsSortedByDate(full_df.rows)

\* ------------------------------------------------------------------ C19
\* C19: merging removes a row only when a kept row has the same date and
\* the same values: a date shared by historical and fresh with identical
\* values appears once, a shared date with differing values keeps both
\* rows, two rows of different dates are both kept even when their values
\* are equal, and every date of either input is in the merged output.
MergeKeepsEveryDate ==
    Merged =>
        /\ \A r \in InputRows : r \in Range(full_df.rows)
        /\ \A r \in Range(history_df.rows) \cap Range(df.rows) :
               Occurrences(full_df.rows, r) = 1
        /\ {r.date : r \in InputRows} = {r.date : r \in Range(full_df.rows)}

\* =============================================================== fetch
\* fetch_fred_data: one Series per name from FRED, combined into a frame
\* on the union of their dates and forward filled.
FetchDays == 3

FredNames == {"dxy", "cpi"}

\* What FRED returns for one name: per date an observation, a NaN (FRED
\* publishes a row without a value) or no row (Absent).  A failed fetch is
\* the empty Series: no row at any date.
FredSeries ==
    [1..FetchDays -> {Absent, NaN} \cup {Num(v) : v \in 1..MaxPrice}]

\* The dates of the index of pd.DataFrame(data): the union of the dates
\* of the Series, in ascending order.
IndexDates(data) ==
    {d \in 1..FetchDays : \E n \in FredNames : data[n][d] # Absent}

RECURSIVE Ascending(_)
Ascending(S) ==
    IF S = {} THEN <<>>
    ELSE LET m == CHOOSE x \in S : \A y \in S : x <= y
         IN <<m>> \o Ascending(S \ {m})

\* pd.DataFrame(data): a cell is the value of the Series at the date, NaN
\* where the Series has no row for it.
DataFrame(data) ==
    LET idx == Ascending(IndexDates(data))
    IN [i \in 1..Len(idx) |->
           [date |-> idx[i],
            cells |-> [n \in FredNames |->
                          IF data[n][idx[i]] = Absent THEN NaN
                          ELSE data[n][idx[i]]]]]

\* A fill that takes the next value below a missing cell.
bfill(rows) ==
    LET filled[k \in 0..Len(rows)] ==
            IF k = 0 THEN [n \in FredNames |-> NaN]
            ELSE [n \in FredNames |->
                     IF rows[Len(rows) + 1 - k].cells[n].tag = "num"
                     THEN rows[Len(rows) + 1 - k].cells[n]
                     ELSE filled[k - 1][n]]
    IN [i \in 1..Len(rows) |->
           [date |-> rows[i].date, cells |-> filled[Len(rows) + 1 - i]]]

\* df.ffill(): down each column, a missing cell takes the value of the
\* cell above it after that one was filled; the top cell stays missing.
ffill(rows) ==
    LET filled[i \in 0..Len(rows)] ==
            IF i = 0 THEN [n \in FredNames |-> NaN]
            ELSE [n \in FredNames |->
                     IF rows[i].cells[n].tag = "num" THEN rows[i].cells[n]
                     ELSE filled[i - 1][n]]
    IN [i \in 1..Len(rows) |->
           [date |-> rows[i].date, cells |-> filled[i]]]

fetch_fred_data(data) ==
    [state |-> "returned", values |-> ffill(DataFrame(data))]

\* ------------------------------------------------------------ the machine
InitFetch ==
    /\ fred_data \in [FredNames -> FredSeries]
    /\ fred_df = NotComputed
    /\ ScorerIdle /\ SeriesIdle /\ FrameIdle /\ PipelineIdle

\* fetcher.fetch_fred_data(days)
FetchFred ==
    /\ fred_df' = fetch_fred_data(fred_data)
    /\ UNCHANGED <<fred_data, scorerVars, seriesVars, frameVars, pipelineVars>>

NextFetch == FetchFred

SpecFetch == InitFetch /\ [][NextFetch]_vars

\* ----------------------------------------------------- reading the outputs
Fetched == fred_df.state = "returned"

\* The dates up to d on which FRED gave an observation of name n.
ObservedUpTo(n, d) == {e \in 1..d : fred_data[n][e].tag = "num"}

Latest(S) == CHOOSE x \in S : \A y \in S : y <= x

\* ------------------------------------------------------------------ C20
\* C20: after the forward fill every cell of every series equals the most
\* recent observation of that series at or before the date of the cell,
\* and every cell dated before the first observation of its series is
\* missing; no cell takes its value from a later date.
ForwardFillOnly ==
    Fetched =>
        \A i \in 1..Len(fred_df.values) : \A n \in FredNames :
            LET d == fred_df.values[i].date
                c == fred_df.values[i].cells[n]
            IN IF ObservedUpTo(n, d) = {} THEN c = NaN
               ELSE c = fred_data[n][Latest(ObservedUpTo(n, d))]

\* A frame in which one series has a cell filled from the observation
\* before it although a different observation follows, and the other has a
\* missing cell ahead of its first observation.
ForwardFillOnlyWitness ==
    /\ Fetched
    /\ \E n \in FredNames : \E i \in 2..(Len(fred_df.values) - 1) :
           /\ fred_data[n][fred_df.values[i].date].tag # "num"
           /\ fred_df.values[i].cells[n] = fred_df.values[i - 1].cells[n]
           /\ fred_df.values[i].cells[n].tag = "num"
           /\ fred_df.values[i + 1].cells[n].tag = "num"
           /\ fred_df.values[i + 1].cells[n] # fred_df.values[i].cells[n]
    /\ \E n \in FredNames : \E i \in 1..(Len(fred_df.values) - 1) :
           /\ fred_df.values[i].cells[n] = NaN
           /\ fred_df.values[i + 1].cells[n].tag = "num"

\* ------------------------------------------------------------------ C30
\* The five bands a score can fall in.
Bands == {"BULLISH", "MILDLY BULLISH", "NEUTRAL", "MILDLY BEARISH", "BEARISH"}

\* Each band is the band of the score of some call.
AllBandsReachable ==
    \A b \in Bands :
        \E ry \in MomentumValues : \E t \in TonnesValues :
            calculate_regime_score(
                [real_yield_momentum_30d |-> ry, dxy_momentum_30d |-> Absent,
                 real_gold_zscore |-> Absent],
                [status |-> "current", is_stale |-> "False",
                 days_old |-> Absent, cb_net_tonnes |-> t]).assessment = b

SnapRows == 2
MaxCalls == 2

CatalogColumns == {"gold_spot", "cpi", "sp500", "real_yield", "nominal_yield"}

\* One column of a frame, as a series of cells.
Column(f, name) == [i \in 1..Len(f.rows) |-> f.rows[i][name]]

Last(s) == s[Len(s)]

\* A derived float as a series cell.  The frames of this part hold 1 or NaN
\* in every column but gold_spot, so each derived value is a whole number
\* or NaN.
AsCell(x) == IF x.tag = "num" /\ x.den = 1 THEN Num(x.num) ELSE NaN

\* df['nominal_yield'] - df['real_yield'], or an empty series.
calculate_breakeven_inflation(f) ==
    IF "nominal_yield" \notin f.columns \/ "real_yield" \notin f.columns
    THEN [state |-> "returned", values |-> <<>>]
    ELSE [state |-> "returned",
          values |-> [i \in 1..Len(f.rows) |->
                         XSub(FromCell(f.rows[i].nominal_yield),
                              FromCell(f.rows[i].real_yield))]]

\* The index of a frame without rows is a DatetimeIndex or, as in
\* pd.DataFrame(), a RangeIndex; a frame with rows is indexed by dates.
IndexKind(f) == IF "index" \in DOMAIN f THEN f.index ELSE "datetime"

\* Values of the dict.
Missing == [tag |-> "missing"]
PyNone == [tag |-> "none"]
Text(t) == [tag |-> "text", text |-> t]
SeriesValue(v) == [tag |-> "series", values |-> v]
NaT == [tag |-> "nat"]

\* momentum_metrics x momentum_periods, for the columns of the model.
MomentumKeys ==
    {[metric |-> "real_yield", days |-> 1, key |-> "real_yield_momentum_30d"],
     [metric |-> "real_yield", days |-> 2, key |-> "real_yield_momentum_60d"],
     [metric |-> "real_yield", days |-> 3, key |-> "real_yield_momentum_90d"],
     [metric |-> "gold_spot", days |-> 1, key |-> "gold_spot_momentum_30d"],
     [metric |-> "gold_spot", days |-> 2, key |-> "gold_spot_momentum_60d"],
     [metric |-> "gold_spot", days |-> 3, key |-> "gold_spot_momentum_90d"]}

\* latest_metrics, for the columns of the model.
CurrentKeys ==
    {[metric |-> "real_yield", key |-> "real_yield_current"],
     [metric |-> "nominal_yield", key |-> "nominal_yield_current"],
     [metric |-> "gold_spot", key |-> "gold_spot_current"],
     [metric |-> "sp500", key |-> "sp500_current"],
     [metric |-> "cpi", key |-> "cpi_current"]}

SnapshotKeys ==
    {"real_gold_price_current", "real_gold_price_series", "real_gold_zscore",
     "real_gold_zscore_note", "gold_sp_ratio", "gold_sp_zscore",
     "breakeven_inflation", "gld_shares_current", "data_start_date",
     "data_end_date", "data_days", "calculation_date"}
    \cup {m.key : m \in MomentumKeys} \cup {c.key : c \in CurrentKeys}

\* Variant of ZscoreEntry: the key is set to None also when there is no
\* real gold price at all.
ZscoreEntryDefaulted(rg, z) ==
    IF rg # <<>> /\ Last(z).tag # "nan" THEN Last(z) ELSE PyNone

\* Lines 166-175: real_gold_zscore is set only inside `if not
\* real_gold.empty`, to the last z-score or to None when that is NaN.
ZscoreEntry(rg, z) ==
    IF rg = <<>> THEN Missing
    ELSE IF Last(z).tag # "nan" THEN Last(z) ELSE PyNone

FirstDate(rows) == CHOOSE d \in {r.date : r \in Range(rows)} :
                     \A r \in Range(rows) : d <= r.date
LastDate(rows) == CHOOSE d \in {r.date : r \in Range(rows)} :
                      \A r \in Range(rows) : d >= r.date

\* Lines 164-245 on the merged frame `full`: the value under key k, or
\* Missing when the key is not set.
SnapshotEntry(k, full, yahoo, now) ==
    LET rg == calculate_real_gold_price(full).values
        rz == calculate_zscore([i \in 1..Len(rg) |-> AsCell(rg[i])],
                               Window, MinPeriods)
        gs == calculate_gold_sp_ratio(full).values
        gz == calculate_zscore([i \in 1..Len(gs) |-> AsCell(gs[i])],
                               Window, MinPeriods)
        be == calculate_breakeven_inflation(full).values
    IN CASE k = "real_gold_price_current" ->
                IF rg = <<>> THEN Missing ELSE Last(rg)
         [] k = "real_gold_price_series" ->
                IF rg = <<>> THEN Missing ELSE SeriesValue(rg)
         [] k = "real_gold_zscore" -> ZscoreEntry(rg, rz)
         [] k = "real_gold_zscore_note" ->
                IF rg = <<>> \/ Last(rz).tag # "nan" THEN Missing
                ELSE Text("Insufficient history for 5Y z-score")
         [] k = "gold_sp_ratio" -> IF gs = <<>> THEN Missing ELSE Last(gs)
         [] k = "gold_sp_zscore" ->
                IF gs = <<>> \/ Last(gz).tag = "nan" THEN Missing ELSE Last(gz)
         [] k = "breakeven_inflation" ->
                IF be = <<>> THEN Missing ELSE Last(be)
         [] k \in {m.key : m \in MomentumKeys} ->
                LET m == CHOOSE x \in MomentumKeys : x.key = k IN
                IF m.metric \notin full.columns THEN Missing
                ELSE LET v == calculate_momentum(Column(full, m.metric), m.days)
                     IN IF v.value.tag = "none" THEN Missing ELSE v.value
         [] k \in {c.key : c \in CurrentKeys} ->
                LET c == CHOOSE x \in CurrentKeys : x.key = k IN
                IF c.metric \notin full.columns \/ full.rows = <<>>
                THEN Missing
                ELSE IF Last(full.rows)[c.metric].tag = "nan" THEN Missing
                ELSE FromCell(Last(full.rows)[c.metric])
         [] k = "gld_shares_current" ->
                IF yahoo.gld_shares = "value" THEN Text("gld_shares")
                ELSE Missing
         [] k = "data_start_date" ->
                IF full.rows = <<>> THEN NaT ELSE Frac(FirstDate(full.rows), 1)
         [] k = "data_end_date" ->
                IF full.rows = <<>> THEN NaT ELSE Frac(LastDate(full.rows), 1)
         [] k = "data_days" ->
                IF full.rows = <<>> THEN XNaN
                ELSE Frac(LastDate(full.rows) - FirstDate(full.rows), 1)
         [] k = "calculation_date" -> Frac(now, 1)

\* Lines 164-247 on the merged frame.  df['cpi'].iloc[0] raises IndexError
\* on a frame with both columns and no rows; (nan - nan).days raises
\* AttributeError when the frame has no rows and its index holds no dates.
calculate_all_metrics(full, yahoo, now) ==
    IF {"gold_spot", "cpi"} \subseteq full.columns /\ full.rows = <<>>
    THEN [state |-> "IndexError", values |-> <<>>]
    ELSE IF full.rows = <<>> /\ IndexKind(full) = "range"
    THEN [state |-> "AttributeError", values |-> <<>>]
    ELSE [state |-> "returned",
          values |-> [k \in {x \in SnapshotKeys :
                                SnapshotEntry(x, full, yahoo, now) # Missing}
                          |-> SnapshotEntry(k, full, yahoo, now)]]

\* ------------------------------------------------------------ the machine
\* A row of the fresh frame: gold_spot holds g, every other column o.
SnapRow(d, g, o, cols) ==
    [date |-> d,
     gold_spot |-> IF "gold_spot" \in cols THEN g ELSE Absent,
     cpi |-> IF "cpi" \in cols THEN o ELSE Absent,
     sp500 |-> IF "sp500" \in cols THEN o ELSE Absent,
     real_yield |-> IF "real_yield" \in cols THEN o ELSE Absent,
     nominal_yield |-> IF "nominal_yield" \in cols THEN o ELSE Absent]

GoldCells == {NaN, Num(1), Num(2), Num(3)}
OtherCells == {NaN, Num(1)}

\* Fresh frames over every subset of the columns: no rows (under either
\* kind of index) or up to SnapRows rows dated 2, 3, ...; gold_spot takes
\* any cell at each row, the other columns hold 1 down to the last row,
\* which holds 1 or nothing.
SnapFrames ==
    UNION {
        {[columns |-> cols, rows |-> <<>>, present |-> TRUE, index |-> kind] :
             kind \in {"datetime", "range"}}
        \cup UNION {{Frame(cols, [i \in 1..n |->
                                     SnapRow(i + 1, g[i],
                                             IF i = n THEN o ELSE Num(1),
                                             cols)]) :
                         g \in [1..n -> GoldCells], o \in OtherCells} :
                    n \in 1..SnapRows} :
        cols \in SUBSET CatalogColumns}

\* The historical frame: None, the frame of a missing file, or one row
\* dated 1 over the columns of the fresh frame.
SnapHistories(f) ==
    {NoFrame, Frame({}, <<>>),
     Frame(f.columns, <<SnapRow(1, Num(3), Num(1), f.columns)>>)}

\* The dict fetch_yahoo_data returned, with or without a share count.
YahooResults ==
    {[YahooNotFetched EXCEPT !.state = "returned", !.gld_shares = g] :
         g \in {"none", "value"}}

InitSnapshot ==
    /\ df \in SnapFrames
    /\ history_df \in SnapHistories(df)
    /\ yahoo_data \in YahooResults
    /\ yahoo_provider = NoProvider
    /\ full_df = NoFrame
    /\ real_gold = NotComputed
    /\ gold_sp = NotComputed
    /\ snapshot = NotComputed
    /\ ScorerIdle /\ SeriesIdle /\ FetchIdle
    /\ CbIdle /\ MonitorIdle /\ RunIdle

\* metrics = calculator.calculate_all_metrics(df, yahoo_data, history_df).
\* `today` is the clock datetime.now() reads; it advances between calls.
\* The sort of the merge is a function of its input: a call repeated on
\* the same frames arranges the rows as the call before it did.
CalcAll ==
    /\ today < MaxCalls
    /\ \E full \in merge(history_df, df) :
           /\ full_df.present => full = full_df
           /\ full_df' = full
           /\ snapshot' = calculate_all_metrics(full, yahoo_data, today + 1)
           /\ real_gold' = IF calculate_real_gold_price(full).state = "IndexError"
                           THEN real_gold
                           ELSE calculate_real_gold_price(full)
           /\ gold_sp' = IF calculate_real_gold_price(full).state = "IndexError"
                         THEN gold_sp
                         ELSE calculate_gold_sp_ratio(full)
    /\ today' = today + 1
    /\ UNCHANGED <<df, history_df, scorerVars, seriesVars, fetchVars,
                   yahooVars, cb_file, cb_record, monitorVars, runVars>>

NextSnapshot == CalcAll

SpecSnapshot == InitSnapshot /\ [][NextSnapshot]_vars

\* ----------------------------------------------------- reading the outputs
SnapshotReturned == snapshot.state = "returned"

\* The keys of the metrics that need the series `col`.
DependentKeys(col) ==
    {c.key : c \in {x \in CurrentKeys : x.metric = col}}
    \cup {m.key : m \in {x \in MomentumKeys : x.metric = col}}
    \cup (IF col \in {"gold_spot", "cpi"}
          THEN {"real_gold_price_current", "real_gold_price_series",
                "real_gold_zscore", "real_gold_zscore_note"} ELSE {})
    \cup (IF col \in {"gold_spot", "sp500"}
          THEN {"gold_sp_ratio", "gold_sp_zscore"} ELSE {})
    \cup (IF col \in {"real_yield", "nominal_yield"}
          THEN {"breakeven_inflation"} ELSE {})

\* ------------------------------------------------------------------ C21
\* C21: for every subset of the catalog series absent from the merged
\* frame, a returned snapshot holds no key of a metric that depends on an
\* absent series: no current value, momentum, real price, ratio, spread or
\* z-score, and no default in their place.
AbsentSeriesOmitted ==
    SnapshotReturned =>
        \A col \in CatalogColumns \ full_df.columns :
            DependentKeys(col) \cap DOMAIN snapshot.values = {}

\* A snapshot of a frame with gold_spot and sp500 and without cpi: the
\* ratio and the gold price are there, the real price and its z-score are
\* not.
AbsentSeriesOmittedWitness ==
    /\ SnapshotReturned
    /\ "cpi" \notin full_df.columns
    /\ {"gold_spot", "sp500"} \subseteq full_df.columns
    /\ {"gold_sp_ratio", "gold_spot_current", "gold_spot_momentum_30d"}
           \subseteq DOMAIN snapshot.values
    /\ "real_gold_zscore" \notin DOMAIN snapshot.values

\* ------------------------------------------------------------------ C22
\* C22: calculate_all_metrics returns a snapshot without raising for every
\* input, also a frame with the gold_spot and cpi columns and no rows and
\* a frame with no rows at all.
SnapshotNeverRaises == snapshot.state \in {"not_computed", "returned"}

\* ------------------------------------------------------------------ C23
\* C23: a call repeated on the same fresh frame, provider data and
\* historical frame returns the snapshot of the call before it, entry for
\* entry, and leaves the input frames unchanged.
SnapshotIsIdempotent ==
    [][/\ df' = df
       /\ history_df' = history_df
       /\ snapshot.state # "not_computed" => snapshot' = snapshot]_vars

\* ======================================================================
\* The curated quarterly file: data/cb_reserves.csv, written by
\* initialize_csv and interactive_update, read by get_latest_data.
\* Days are counted from 2024-11-15, the first validated_date of the
\* sample data; a quarter is held as its number and year, its label being
\* Q<q>_<year>.
StaleDays == 90
SampleDay == 97
MaxDay == 188

Quarter(n, y) == [q |-> n, year |-> y]

CbQuarters == {Quarter(3, 2024), Quarter(4, 2024), Quarter(1, 2025)}

UpdateTonnes == {0, 400}

CsvRow(quarter, tonnes, date) ==
    [quarter |-> quarter, cb_net_tonnes |-> tonnes, source |-> "WGC",
     validated_date |-> date]

Csv(rows) == [exists |-> TRUE, readable |-> TRUE, rows |-> rows]

\* A file pd.read_csv cannot parse (no header line left in it).
UnreadableCsv == [exists |-> TRUE, readable |-> FALSE, rows |-> <<>>]

initialize_csv(sample_data) ==
    IF sample_data
    THEN Csv(<<CsvRow(Quarter(3, 2024), 333, 0),
               CsvRow(Quarter(4, 2024), 290, SampleDay)>>)
    ELSE Csv(<<>>)

IsStaleFromNinety(days_old) == days_old >= StaleDays

IsStale(days_old) == days_old > StaleDays

get_latest_data(file, now) ==
    IF ~file.exists
    THEN [error |-> "CB data file not found", status |-> "missing",
          message |-> "Run: python scripts/manual_cb_update.py --init"]
    ELSE IF ~file.readable
    THEN [error |-> "EmptyDataError", status |-> "error"]
    ELSE IF file.rows = <<>>
    THEN [error |-> "CB data file is empty", status |-> "empty"]
    ELSE LET latest == file.rows[Len(file.rows)]
             days_old == now - latest.validated_date
         IN  [quarter |-> latest.quarter,
              cb_net_tonnes |-> latest.cb_net_tonnes,
              source |-> latest.source,
              validated_date |-> latest.validated_date,
              days_old |-> days_old,
              is_stale |-> IsStale(days_old),
              status |-> IF days_old > StaleDays THEN "stale" ELSE "current",
              all_quarters |-> file.rows]

\* df[df['quarter'] != quarter]
WithoutQuarter(rows, quarter) ==
    SelectSeq(rows, LAMBDA r : r.quarter # quarter)

HasQuarter(rows, quarter) == \E i \in DOMAIN rows : rows[i].quarter = quarter

\* The file interactive_update leaves for a confirmed entry; `overwrite`
\* is the answer to the question asked when the quarter is in the file.
interactive_update(file, quarter, tonnes, overwrite, now) ==
    IF ~file.exists \/ ~file.readable
    THEN file
    ELSE IF HasQuarter(file.rows, quarter) /\ ~overwrite
    THEN file
    ELSE Csv(Append(WithoutQuarter(file.rows, quarter),
                    CsvRow(quarter, tonnes, now)))

\* ---------------------------------------------------------------- machine
InitCb ==
    /\ cb_file = NoCsv
    /\ today = SampleDay
    /\ cb_record = NoRecord
    /\ ScorerIdle /\ SeriesIdle /\ FrameIdle /\ FetchIdle
    /\ SnapshotIdle /\ YahooIdle /\ MonitorIdle /\ RunIdle

cbRest == <<scorerVars, seriesVars, frameVars, fetchVars, metricsVars,
            yahooVars, monitorVars, runVars>>

\* monitor.initialize_csv(sample_data)
InitializeCsv ==
    /\ \E sample_data \in BOOLEAN : cb_file' = initialize_csv(sample_data)
    /\ UNCHANGED <<today, cb_record, cbRest>>

\* python scripts/manual_cb_update.py, the entry confirmed.
InteractiveUpdate ==
    /\ \E quarter \in CbQuarters, tonnes \in UpdateTonnes,
          overwrite \in BOOLEAN :
           cb_file' = interactive_update(cb_file, quarter, tonnes,
                                         overwrite, today)
    /\ UNCHANGED <<today, cb_record, cbRest>>

\* The file is edited by hand and left without a parsable header.
EditByHand ==
    /\ cb_file.exists
    /\ cb_file' = UnreadableCsv
    /\ UNCHANGED <<today, cb_record, cbRest>>

\* Time passes: a quarter of ninety days, or ninety-one.
Tick ==
    /\ \E d \in {StaleDays, StaleDays + 1} :
           /\ today + d <= MaxDay
           /\ today' = today + d
    /\ UNCHANGED <<cb_file, cb_record, cbRest>>

\* cb_data = monitor.get_latest_data()
GetLatest ==
    /\ cb_record' = get_latest_data(cb_file, today)
    /\ UNCHANGED <<cb_file, today, cbRest>>

NextCb == InitializeCsv \/ InteractiveUpdate \/ EditByHand \/ Tick \/ GetLatest

SpecCb == InitCb /\ [][NextCb]_vars

\* ----------------------------------------------------- reading the outputs
Earlier(a, b) == a.year < b.year \/ (a.year = b.year /\ a.q < b.q)

\* The chronologically most recent quarter among the rows.
MostRecentQuarter(rows) ==
    CHOOSE x \in {rows[i].quarter : i \in DOMAIN rows} :
        \A i \in DOMAIN rows : ~Earlier(x, rows[i].quarter)

HasData == cb_record.status \in {"current", "stale"}

\* ------------------------------------------------------------------ C24
\* C24: every record get_latest_data returns has status missing, empty,
\* current, stale or error; a current or stale record has is_stale true
\* exactly when days_old > 90 and status stale exactly when is_stale is
\* true, so a signal exactly 90 days old is current; a missing, empty or
\* error record carries no tonnes value.
StatusContract ==
    cb_record # NoRecord =>
        /\ cb_record.status \in {"missing", "empty", "current", "stale", "error"}
        /\ HasData =>
               /\ cb_record.is_stale <=> cb_record.days_old > 90
               /\ cb_record.status = "stale" <=> cb_record.is_stale
               /\ "cb_net_tonnes" \in DOMAIN cb_record
        /\ ~HasData => "cb_net_tonnes" \notin DOMAIN cb_record

\* The last entry was validated exactly ninety days before the read.
StatusContractWitness ==
    /\ HasData
    /\ cb_record.days_old = 90
    /\ cb_record.status = "current"
    /\ ~cb_record.is_stale

\* ------------------------------------------------------------------ C25
\* C25: after any sequence of manual updates of the curated file, an
\* overwrite of an earlier quarter's entry included, get_latest_data
\* returns the record of the chronologically most recent quarter of the
\* file it read.
LatestIsMostRecentQuarter ==
    HasData => cb_record.quarter = MostRecentQuarter(cb_record.all_quarters)

\* ======================================================================
\* fetch_yahoo_data: the gold price from the first source that answers,
\* then the VIX history and the GLD holdings.  yahoo_provider holds what
\* each request would answer; `asked` collects the requests made.
Answers == {"data", "empty", "error"}

Providers ==
    {[xauusd |-> x, gc |-> g, gld_proxy |-> p, vix |-> v, gld |-> h,
      gld_info |-> i] :
         x \in Answers \cup {"no_close"}, g \in Answers, p \in Answers,
         v \in Answers, h \in Answers, i \in {"value", "none", "error"}}

\* results as initialised at lines 95-102.
EmptyResults == [YahooNotFetched EXCEPT !.state = "returned"]

\* Lines 146-160: the VIX block.
FetchVix(results, p) ==
    IF p.vix = "data"
    THEN [results EXCEPT !.vix_history = "^VIX", !.vix_current = "value",
                         !.asked = @ \cup {"vix"}]
    ELSE [results EXCEPT !.asked = @ \cup {"vix"}]

\* Lines 162-185: the GLD block.
FetchGld(results, p) ==
    IF p.gld = "data"
    THEN [results EXCEPT !.gld_price_history = "GLD",
                         !.gld_shares = IF p.gld_info = "value"
                                        THEN "value" ELSE "none",
                         !.asked = @ \cup {"gld", "gld_info"}]
    ELSE [results EXCEPT !.asked = @ \cup {"gld"}]

fetch_yahoo_data(p) ==
    IF p.xauusd = "data"
    THEN [EmptyResults EXCEPT !.gold_history = "XAUUSD=X",
                              !.asked = {"xauusd"}]
    ELSE IF p.gc = "data"
    THEN [EmptyResults EXCEPT !.gold_history = "GC=F",
                              !.asked = {"xauusd", "gc"}]
    ELSE IF p.gld_proxy = "data"
    THEN [EmptyResults EXCEPT !.gold_history = "GLD*10",
                              !.asked = {"xauusd", "gc", "gld_proxy"}]
    ELSE FetchGld(FetchVix([EmptyResults EXCEPT
                                !.asked = {"xauusd", "gc", "gld_proxy"}],
                           p), p)

\* ---------------------------------------------------------------- machine
InitYahoo ==
    /\ yahoo_provider \in Providers
    /\ yahoo_data = YahooNotFetched
    /\ ScorerIdle /\ SeriesIdle /\ FrameIdle /\ FetchIdle
    /\ SnapshotIdle /\ CbIdle /\ MonitorIdle /\ RunIdle

\* yahoo_data = self.fetch_yahoo_data(days)
FetchYahoo ==
    /\ yahoo_data.state = "not_fetched"
    /\ yahoo_data' = fetch_yahoo_data(yahoo_provider)
    /\ UNCHANGED <<yahoo_provider, scorerVars, seriesVars, frameVars,
                   fetchVars, metricsVars, cbVars, monitorVars, runVars>>

NextYahoo == FetchYahoo

SpecYahoo == InitYahoo /\ [][NextYahoo]_vars

\* ------------------------------------------------------------------ C26
\* C26: every call of fetch_yahoo_data asks for the VIX history and for
\* the GLD holdings, whichever gold source answered, and when the VIX
\* provider has data the result holds a non-empty vix_history and a
\* vix_current.
VixAndGldAlwaysAttempted ==
    yahoo_data.state = "returned" =>
        /\ {"vix", "gld"} \subseteq yahoo_data.asked
        /\ yahoo_provider.vix = "data" =>
               /\ yahoo_data.vix_history # "empty"
               /\ yahoo_data.vix_current # "none"

\* ======================================================================
\* check_for_new_report: the state file data/cb_monitor_state.json, the
\* state a monitor loads from it, the links of the reports page.  A link
\* text is held as what the pattern Q([1-4])[\s\-\']+(\d{2,4}) finds in
\* it: the quarter number, the year and the number of its digits, or no
\* match.  One process holds one monitor; processes run one after another.
FirstLinks == 5
MaxTail == 2

NoMatch == [q |-> 0, year |-> 0, digits |-> 0]

LinkText(n, y, d) == [q |-> n, year |-> y, digits |-> d]

\* "Q3 2025", "Q3'25", "Q4-2025" and a link without a quarter.
LinkTexts == {LinkText(3, 2025, 4), LinkText(3, 25, 2), LinkText(4, 2025, 4),
              NoMatch}

\* Lines 98-108: the label of a matching link text.
Label(text) ==
    Quarter(text.q, IF text.digits = 2 THEN 2000 + text.year ELSE text.year)

Repeat(x, n) == [i \in 1..n |-> x]

\* Up to MaxTail report links in a row.
Tails == UNION {[1..n -> LinkTexts \ {NoMatch}] : n \in 0..MaxTail}

\* How many links without a quarter come before the report links: none,
\* or so many that the first report link is the fifth or the sixth.
Pads == {0, FirstLinks - 1, FirstLinks}

\* The links whose href holds gold-demand-trends, in page order: links
\* without a quarter first, then the report links.
Pages == {Repeat(NoMatch, k) \o t : k \in Pads, t \in Tails}

\* Variant of FirstFive: every link of the page is looked at.
EveryLink(links) == links

\* reports[:5]
FirstFive(links) == SubSeq(links, 1, IF Len(links) < FirstLinks
                                     THEN Len(links) ELSE FirstLinks)

\* Lines 92-108: the labels of the matching links among the first five.
found_quarters(links) ==
    LET matching == SelectSeq(FirstFive(links), LAMBDA t : t # NoMatch)
    IN  [i \in DOMAIN matching |-> Label(matching[i])]

ReportNone == [returned |-> "None"]

NewReport(quarter) == [returned |-> "quarter", quarter |-> quarter]

\* Variant of load_state: the monitor starts from an empty list.
load_state_empty(file) == [loaded |-> TRUE, checked_quarters |-> <<>>]

\* load_state: the file's list, or an empty one when there is no file.
load_state(file) ==
    [loaded |-> TRUE,
     checked_quarters |-> IF file.exists THEN file.checked_quarters ELSE <<>>]

\* save_state: the whole state of the monitor replaces the file.
save_state(st) == [exists |-> TRUE, checked_quarters |-> st.checked_quarters]

\* Lines 82-137.  `response` is the outcome of requests.get, `saving` the
\* outcome of save_state.  The result holds the monitor's state, the
\* file, the notifications and the value returned.
check_for_new_report(st, file, sent, links, response, saving) ==
    LET found == found_quarters(links)
        unchecked == {i \in DOMAIN found :
                          found[i] \notin Range(st.checked_quarters)}
        same == [state |-> st, state_file |-> file, notified |-> sent,
                 new_report |-> ReportNone]
    IN  IF response # "ok" \/ unchecked = {}
        THEN same
        ELSE LET first == CHOOSE i \in unchecked :
                              \A j \in unchecked : i <= j
                 quarter == found[first]
                 appended == [st EXCEPT !.checked_quarters =
                                            Append(@, quarter)]
             IN  IF saving # "ok"
                 THEN [same EXCEPT !.state = appended]
                 ELSE [state |-> appended,
                       state_file |-> save_state(appended),
                       notified |-> Append(sent, quarter),
                       new_report |-> NewReport(quarter)]

\* ---------------------------------------------------------------- machine
InitMonitor ==
    /\ MonitorIdle
    /\ ScorerIdle /\ SeriesIdle /\ FrameIdle /\ FetchIdle
    /\ SnapshotIdle /\ YahooIdle /\ CbIdle /\ RunIdle

monitorRest == <<scorerVars, seriesVars, frameVars, fetchVars, metricsVars,
                 yahooVars, cbVars, runVars>>

\* monitor = CentralBankMonitor(email_config): a new process starts.
Construct ==
    /\ state' = load_state(state_file)
    /\ UNCHANGED <<state_file, page, notified, new_report, monitorRest>>

\* new_report = monitor.check_for_new_report()
Check ==
    /\ state.loaded
    /\ \E links \in Pages, response \in {"ok", "error"},
          saving \in {"ok", "error"} :
           LET r == check_for_new_report(state, state_file, notified, links,
                                         response, saving)
           IN  /\ state' = r.state
               /\ state_file' = r.state_file
               /\ notified' = r.notified
               /\ new_report' = r.new_report
               /\ page' = links
    /\ UNCHANGED monitorRest

NextMonitor == Construct \/ Check

SpecMonitor == InitMonitor /\ [][NextMonitor]_vars

\* ----------------------------------------------------- reading the outputs
\* The labels of the first five links of the page, in page order.
LabelsOfFirstFive(links) ==
    {Label(links[i]) : i \in {j \in DOMAIN links :
                                  j <= 5 /\ links[j] # NoMatch}}

\* Position of the first of the first five links with the label.
FirstPosition(links, label) ==
    CHOOSE i \in DOMAIN links :
        /\ links[i] # NoMatch /\ Label(links[i]) = label
        /\ \A j \in 1..(i - 1) :
               links[j] = NoMatch \/ Label(links[j]) # label

HistoryFile(f) == [exists |-> TRUE, columns |-> f.columns, rows |-> f.rows]

\* existing = pd.read_csv(history_file, index_col=0, parse_dates=True)
read_csv(file) == Frame(file.columns, file.rows)

\* Lines 72-85: the files the call can leave (rows of one date come out of
\* sort_index in any order).
save_historical_data(file, f) ==
    LET combined == IF file.exists
                    THEN Frame(concat(read_csv(file), f).columns,
                               drop_duplicates(concat(read_csv(file), f).rows))
                    ELSE f
    IN  {HistoryFile(Frame(combined.columns, rows)) :
             rows \in sort_index(combined.rows)}

\* The history files of earlier runs: none, or rows in ascending date order.
HistoryFiles ==
    {NoHistoryFile}
    \cup {HistoryFile(h) : h \in {x \in HistoryFrames :
                                      x.present /\ ~IsEmpty(x)}}

\* ---------------------------------------------------------------- machine
InitSave ==
    /\ df \in FreshFrames
    /\ history_file \in HistoryFiles
    /\ step = "idle"
    /\ report_saved = FALSE
    /\ run_result = "none"
    /\ history_df = NoFrame
    /\ full_df = NoFrame
    /\ real_gold = NotComputed
    /\ gold_sp = NotComputed
    /\ ScorerIdle /\ SeriesIdle /\ FetchIdle
    /\ SnapshotIdle /\ YahooIdle /\ CbIdle /\ MonitorIdle

\* save_historical_data(df)
SaveHistory ==
    /\ history_file' \in save_historical_data(history_file, df)
    /\ step' = "history_saved"
    /\ UNCHANGED <<report_saved, run_result, scorerVars, seriesVars,
                   frameVars, fetchVars, metricsVars, yahooVars, cbVars,
                   monitorVars>>

NextSave == SaveHistory

SpecSave == InitSave /\ [][NextSave]_vars

\* ----------------------------------------------------- reading the outputs
SameRows(a, b) ==
    \A r \in Range(a) \cup Range(b) : Occurrences(a, r) = Occurrences(b, r)

\* ------------------------------------------------------------------ C29
\* C29: from any history file state, no file included, saving the frame a
\* second time leaves the file with the rows the first save left.
SaveIsIdempotent ==
    [][step = "history_saved" => SameRows(history_file'.rows,
                                          history_file.rows)]_vars

\* ======================================================================
\* run_monthly_report: one action per step of the script.  A run is one
\* process; runs follow each other on later days and share the history
\* file and the monitor's state file.  STEP 5 and STEPS 6-7 leave nothing
\* but the report file behind; an exception in them is an outcome of the
\* step.
MaxRuns == 2

\* What fetch_all can return on day `now`: no data, or up to SnapRows
\* daily rows of gold_spot from that day on.
RunFrames(now) ==
    {[columns |-> {}, rows |-> <<>>, present |-> TRUE, index |-> "range"]}
    \cup UNION {{Frame({"gold_spot"},
                       [i \in 1..n |-> SnapRow(now + i - 1, g[i], Absent,
                                               {"gold_spot"})]) :
                     g \in [1..n -> {Num(1), Num(2)}]} :
                n \in 1..SnapRows}

\* The pages a run's check can see: no link, or one report link.
RunPages == {links \in Pages : Len(links) <= 1}

\* Lines 42-61: the frame of the file, or pd.DataFrame() without one.
load_historical_data(file) ==
    IF file.exists
    THEN read_csv(file)
    ELSE [columns |-> {}, rows |-> <<>>, present |-> TRUE, index |-> "range"]

Outcomes == {"ok", "raises"}

\* ---------------------------------------------------------------- machine
InitRun ==
    /\ RunIdle
    /\ ScorerIdle /\ SeriesIdle /\ FrameIdle /\ FetchIdle
    /\ SnapshotIdle /\ YahooIdle /\ CbIdle /\ MonitorIdle

runFixed == <<scorerVars, seriesVars, real_gold, gold_sp, fetchVars,
              yahoo_provider, cb_file>>

Running(at) == step = at /\ run_result = "none"

\* Lines 109-116: a new process starts the script and reads the key.
StartRun ==
    /\ step \in {"idle", "history_saved", "failed"}
    /\ today < MaxRuns
    /\ today' = today + 1
    /\ df' = NoFrame /\ history_df' = NoFrame /\ full_df' = NoFrame
    /\ snapshot' = NotComputed
    /\ yahoo_data' = YahooNotFetched
    /\ cb_record' = NoRecord
    /\ state' = NoMonitor /\ page' = <<>> /\ new_report' = NoReport
    /\ report_saved' = FALSE
    /\ \E fred_key \in {"configured", "missing"} :
           IF fred_key = "missing"
           THEN step' = "failed" /\ run_result' = "False"
           ELSE step' = "started" /\ run_result' = "none"
    /\ UNCHANGED <<history_file, state_file, notified, runFixed>>

\* STEP 1, lines 138-144.
FetchAll ==
    /\ Running("started")
    /\ \E f \in RunFrames(today), y \in YahooResults :
           /\ df' = f
           /\ yahoo_data' = y
           /\ IF IsEmpty(f)
              THEN step' = "failed" /\ run_result' = "False"
              ELSE step' = "fetched" /\ UNCHANGED run_result
    /\ UNCHANGED <<history_df, full_df, snapshot, cb_record, today,
                   monitorVars, history_file, report_saved, runFixed>>

\* STEPS 2 and 3, lines 150-162.
CheckAndLoad ==
    /\ Running("fetched")
    /\ \E links \in RunPages, response \in Outcomes, saving \in Outcomes :
           LET r == check_for_new_report(load_state(state_file), state_file,
                                         notified, links,
                                         IF response = "ok" THEN "ok"
                                         ELSE "error",
                                         IF saving = "ok" THEN "ok"
                                         ELSE "error")
           IN  /\ state' = r.state
               /\ state_file' = r.state_file
               /\ notified' = r.notified
               /\ new_report' = r.new_report
               /\ page' = links
    /\ cb_record' = get_latest_data(cb_file, today)
    /\ step' = "cb_loaded"
    /\ UNCHANGED <<df, history_df, full_df, snapshot, yahoo_data, today,
                   history_file, report_saved, run_result, runFixed>>

\* STEP 4, lines 175-178.
CalcMetrics ==
    /\ Running("cb_loaded")
    /\ history_df' = load_historical_data(history_file)
    /\ \E full \in merge(load_historical_data(history_file), df),
          outcome \in Outcomes :
           LET m == calculate_all_metrics(full, yahoo_data, today) IN
           /\ full_df' = full
           /\ IF outcome = "ok" /\ m.state = "returned"
              THEN /\ snapshot' = m
                   /\ step' = "metrics" /\ UNCHANGED run_result
              ELSE /\ UNCHANGED snapshot
                   /\ step' = "failed" /\ run_result' = "False"
    /\ UNCHANGED <<df, yahoo_data, cb_record, today, monitorVars,
                   history_file, report_saved, runFixed>>

\* STEP 5, line 188.
ScoreRegime ==
    /\ Running("metrics")
    /\ \E outcome \in Outcomes :
           IF outcome = "ok"
           THEN step' = "scored" /\ UNCHANGED run_result
           ELSE step' = "failed" /\ run_result' = "False"
    /\ UNCHANGED <<frameVars, metricsVars, yahoo_data, cb_record, today,
                   monitorVars, history_file, report_saved, runFixed>>

\* Variant of GenerateReport: the history is written in this step, before
\* the report is generated.
GenerateReportAfterHistory ==
    /\ Running("scored")
    /\ history_file' \in save_historical_data(history_file, df)
    /\ \E outcome \in Outcomes :
           IF outcome = "ok"
           THEN /\ report_saved' = TRUE
                /\ step' = "report_saved" /\ UNCHANGED run_result
           ELSE /\ UNCHANGED report_saved
                /\ step' = "failed" /\ run_result' = "False"
    /\ UNCHANGED <<frameVars, metricsVars, yahoo_data, cb_record, today,
                   monitorVars, runFixed>>

\* STEPS 6 and 7, lines 198-223.
GenerateReport ==
    /\ Running("scored")
    /\ \E outcome \in Outcomes :
           IF outcome = "ok"
           THEN /\ report_saved' = TRUE
                /\ step' = "report_saved" /\ UNCHANGED run_result
           ELSE /\ UNCHANGED report_saved
                /\ step' = "failed" /\ run_result' = "False"
    /\ UNCHANGED <<frameVars, metricsVars, yahoo_data, cb_record, today,
                   monitorVars, history_file, runFixed>>

\* STEP 8 and the return, lines 229-244.
AppendHistory ==
    /\ Running("report_saved")
    /\ \E outcome \in Outcomes :
           IF outcome = "ok"
           THEN /\ history_file' \in save_historical_data(history_file, df)
                /\ step' = "history_saved" /\ run_result' = "True"
           ELSE /\ UNCHANGED history_file
                /\ step' = "failed" /\ run_result' = "False"
    /\ UNCHANGED <<frameVars, metricsVars, yahoo_data, cb_record, today,
                   monitorVars, report_saved, runFixed>>

NextRun ==
    \/ StartRun
    \/ FetchAll
    \/ CheckAndLoad
    \/ CalcMetrics
    \/ ScoreRegime
    \/ GenerateReport
    \/ AppendHistory

SpecRun == InitRun /\ [][NextRun]_vars

\* ------------------------------------------------------------------ C28
\* C28: the history file changes only in the last step of a run, after
\* the report was saved, and that run returns True; a step that fails or
\* returns early ends the run with False and leaves the history file as
\* it is; from the metrics step to the report the historical frame of
\* the run is the file as it still is, without the run's own data, and
\* the merged frame was built from it.
HistoryWrittenLast ==
    /\ [][history_file' # history_file =>
              /\ step = "report_saved" /\ report_saved
              /\ step' = "history_saved" /\ run_result' = "True"]_vars
    /\ [][step' = "failed" /\ step # "failed" =>
              run_result' = "False" /\ history_file' = history_file]_vars
    /\ [](step = "failed" <=> run_result = "False")
    /\ [](step \in {"metrics", "scored", "report_saved"} =>
              /\ history_df = load_historical_data(history_file)
              /\ full_df \in merge(history_df, df))

\* The second run fails after its metrics were computed from the history
\* the first run left, which holds the first run's rows and no other.
HistoryWrittenLastWitness ==
    /\ step = "failed" /\ run_result = "False"
    /\ today = 2
    /\ snapshot.state = "returned"
    /\ history_file.exists
    /\ history_df.rows = history_file.rows
    /\ \E i \in DOMAIN df.rows : df.rows[i] \notin Range(history_file.rows)

====
